---- MODULE Spec2Model ----
(***************************************************************************)
(* Model of src/main.py: RemoteSSHFileSystemManager (session handling,     *)
(* path confinement, remote filesystem operations) and main().             *)
(* Strings are sequences of one-character strings, so that prefix tests,   *)
(* normalisation and splitting are computed as the code computes them.     *)
(***************************************************************************)
EXTENDS Integers, Sequences, FiniteSets, TLC

(* ---------------------------------------------------------------------- *)
(* Bounds                                                                  *)
(* ---------------------------------------------------------------------- *)
MaxLen == 5

Alphabet == {"/", ".", "a", "b"}

Sep == <<"/">>
Dot == <<".">>
DotDot == <<".", ".">>

Strings(n) == UNION {[1..k -> Alphabet] : k \in 0..n}

Bases == {<<"/">>, <<"/", "a">>, <<"/", "a", "/", "b">>}

(* ---------------------------------------------------------------------- *)
(* String helpers (str.startswith, str.split, str.join)                    *)
(* ---------------------------------------------------------------------- *)
StartsWith(s, p) == Len(p) <= Len(s) /\ SubSeq(s, 1, Len(p)) = p

EndsWith(s, p) == Len(p) <= Len(s) /\ SubSeq(s, Len(s) - Len(p) + 1, Len(s)) = p

RECURSIVE SplitAcc(_, _, _)
SplitAcc(s, cur, acc) ==
    IF s = <<>> THEN Append(acc, cur)
    ELSE IF Head(s) = "/" THEN SplitAcc(Tail(s), <<>>, Append(acc, cur))
    ELSE SplitAcc(Tail(s), Append(cur, Head(s)), acc)

Split(s) == SplitAcc(s, <<>>, <<>>)

RECURSIVE JoinComps(_)
JoinComps(comps) ==
    IF comps = <<>> THEN <<>>
    ELSE IF Len(comps) = 1 THEN comps[1]
    ELSE comps[1] \o Sep \o JoinComps(Tail(comps))

(* ---------------------------------------------------------------------- *)
(* os.path.normpath (posixpath), used by _validate_path line 91            *)
(* ---------------------------------------------------------------------- *)
InitialSlashes(path) ==
    IF ~StartsWith(path, Sep) THEN 0
    ELSE IF StartsWith(path, Sep \o Sep) /\ ~StartsWith(path, Sep \o Sep \o Sep) THEN 2
    ELSE 1

Slashes(n) == [i \in 1..n |-> "/"]

RECURSIVE NormComps(_, _, _)
NormComps(comps, new, isl) ==
    IF comps = <<>> THEN new
    ELSE LET comp == Head(comps) IN
         IF comp = <<>> \/ comp = Dot THEN NormComps(Tail(comps), new, isl)
         ELSE IF \/ comp # DotDot
                 \/ (isl = 0 /\ new = <<>>)
                 \/ (new # <<>> /\ new[Len(new)] = DotDot)
              THEN NormComps(Tail(comps), Append(new, comp), isl)
         ELSE IF new # <<>>
              THEN NormComps(Tail(comps), SubSeq(new, 1, Len(new) - 1), isl)
         ELSE NormComps(Tail(comps), new, isl)

normpath(path) ==
    IF path = <<>> THEN Dot
    ELSE LET isl == InitialSlashes(path)
             p   == Slashes(isl) \o JoinComps(NormComps(Split(path), <<>>, isl))
         IN  IF p = <<>> THEN Dot ELSE p

(* ---------------------------------------------------------------------- *)
(* pathlib.Path on POSIX: str(Path(s)) and Path(b) / rel.  Repeated        *)
(* slashes and "." segments are dropped, ".." segments are kept.           *)
(* ---------------------------------------------------------------------- *)
PathParts(s) == SelectSeq(Split(s), LAMBDA c : c # <<>> /\ c # Dot)

PathStr(s) ==
    LET root  == Slashes(InitialSlashes(s))
        parts == PathParts(s)
    IN  IF root = <<>> /\ parts = <<>> THEN Dot ELSE root \o JoinComps(parts)

PathJoin(b, rel) ==
    IF StartsWith(rel, Sep) THEN PathStr(rel)
    ELSE IF EndsWith(b, Sep) THEN PathStr(b \o rel)
    ELSE PathStr(b \o Sep \o rel)

(* ---------------------------------------------------------------------- *)
(* RemoteSSHFileSystemManager._validate_path (str argument)                *)
(* ---------------------------------------------------------------------- *)
Rejected == [ok |-> FALSE, path |-> <<>>]

(* _validate_path without the join of line 92: the normalised path alone *)
_validate_path_Unjoined(base, path) ==
    LET norm_path == normpath(path)
        full_path == IF ~StartsWith(path, Sep) THEN PathStr(norm_path)
                     ELSE PathStr(path)
    IN  IF ~StartsWith(full_path, base) THEN Rejected
        ELSE [ok |-> TRUE, path |-> full_path]

_validate_path(base, path) ==
    LET norm_path == normpath(path)
        full_path == IF ~StartsWith(path, Sep) THEN PathJoin(base, norm_path)
                     ELSE PathStr(path)
        base_str  == base
        path_str  == full_path
    IN  IF ~StartsWith(path_str, base_str) THEN Rejected
        ELSE [ok |-> TRUE, path |-> full_path]

(* ---------------------------------------------------------------------- *)
(* Lexical location of an absolute path: its components with "." and ".."  *)
(* resolved (".." at the root stays at the root).                          *)
(* ---------------------------------------------------------------------- *)
RECURSIVE ResolveComps(_, _)
ResolveComps(comps, acc) ==
    IF comps = <<>> THEN acc
    ELSE LET comp == Head(comps) IN
         IF comp = <<>> \/ comp = Dot THEN ResolveComps(Tail(comps), acc)
         ELSE IF comp = DotDot
              THEN ResolveComps(Tail(comps),
                                IF acc = <<>> THEN acc ELSE SubSeq(acc, 1, Len(acc) - 1))
         ELSE ResolveComps(Tail(comps), Append(acc, comp))

Location(abs) == ResolveComps(Split(abs), <<>>)

Inside(loc, dir) == Len(dir) <= Len(loc) /\ SubSeq(loc, 1, Len(dir)) = dir

(* ---------------------------------------------------------------------- *)
(* More string helpers: str.lstrip('/'), os.path.basename, substring test  *)
(* ---------------------------------------------------------------------- *)
RECURSIVE LStripSep(_)
LStripSep(s) == IF s # <<>> /\ Head(s) = "/" THEN LStripSep(Tail(s)) ELSE s

Basename(s) == LET c == Split(s) IN c[Len(c)]

Contains(s, sub) ==
    \E i \in 0..(Len(s) - Len(sub)) : SubSeq(s, i + 1, i + Len(sub)) = sub

(* ---------------------------------------------------------------------- *)
(* The remote host: a fixed directory tree, in the order the host reports  *)
(* it, and the directory a relative path is resolved against (the login    *)
(* directory of the SSH user).                                             *)
(* ---------------------------------------------------------------------- *)
Node(loc, dir) == [loc |-> loc, dir |-> dir]

TreeSeq ==
    << Node(<< <<"a">> >>, TRUE),
       Node(<< <<"a">>, <<"f">> >>, FALSE),
       Node(<< <<"e">> >>, TRUE),
       Node(<< <<"e">>, <<"f">> >>, FALSE),
       Node(<< <<"f">> >>, FALSE),
       Node(<< <<"h">> >>, TRUE),
       Node(<< <<"h">>, <<"f">> >>, FALSE) >>

FileLocs == {TreeSeq[i].loc : i \in {j \in 1..Len(TreeSeq) : ~TreeSeq[j].dir}}

(* Bytes are written as two hex digits; "FF" never occurs in UTF-8.        *)
InitialFiles ==
    [l \in FileLocs |->
        IF l = << <<"a">>, <<"f">> >> \/ l = << <<"f">> >> THEN <<>>
        ELSE IF l = << <<"e">>, <<"f">> >> THEN <<"FF">>
        ELSE <<"78", "78">>]

Contents == {<<"x">>, <<"eacute">>}

(* str.encode('utf-8') and bytes.decode('utf-8') on the characters used.    *)
EncodeChar(ch) == IF ch = "eacute" THEN <<"C3", "A9">> ELSE <<"78">>

RECURSIVE Encode(_)
Encode(text) == IF text = <<>> THEN <<>> ELSE EncodeChar(Head(text)) \o Encode(Tail(text))

DecodeError == [ok |-> FALSE, text |-> <<>>]

RECURSIVE Decode(_)
Decode(bytes) ==
    IF bytes = <<>> THEN [ok |-> TRUE, text |-> <<>>]
    ELSE IF Head(bytes) = "78"
         THEN LET r == Decode(Tail(bytes))
              IN  IF r.ok THEN [ok |-> TRUE, text |-> <<"x">> \o r.text] ELSE DecodeError
    ELSE IF Head(bytes) = "C3" /\ Len(bytes) >= 2 /\ bytes[2] = "A9"
         THEN LET r == Decode(SubSeq(bytes, 3, Len(bytes)))
              IN  IF r.ok THEN [ok |-> TRUE, text |-> <<"eacute">> \o r.text] ELSE DecodeError
    ELSE DecodeError

Home == <<"/", "h">>

RemoteAbs(p) == IF StartsWith(p, Sep) THEN p ELSE Home \o Sep \o p

RemoteLoc(p) == Location(RemoteAbs(p))

Exists(loc) == loc = <<>> \/ \E i \in 1..Len(TreeSeq) : TreeSeq[i].loc = loc

IsDir(loc) == loc = <<>> \/ \E i \in 1..Len(TreeSeq) : TreeSeq[i].loc = loc /\ TreeSeq[i].dir

IsFile(loc) == loc \in FileLocs

Under(start) == SelectSeq(TreeSeq, LAMBDA n : Inside(n.loc, start))

(* Output lines of: find <base_dir> -name '*<pattern>*' -type f -o ... -type d *)
FindLine(base_dir, start, n) ==
    LET rest == SubSeq(n.loc, Len(start) + 1, Len(n.loc))
    IN  IF rest = <<>> THEN base_dir
        ELSE IF EndsWith(base_dir, Sep) THEN base_dir \o JoinComps(rest)
        ELSE base_dir \o Sep \o JoinComps(rest)

Find(base_dir, pattern) ==
    LET start == RemoteLoc(base_dir)
        hits  == SelectSeq(Under(start),
                           LAMBDA n : Contains(n.loc[Len(n.loc)], pattern))
    IN  IF ~Exists(start) THEN <<>>
        ELSE [i \in 1..Len(hits) |-> FindLine(base_dir, start, hits[i])]

(* ---------------------------------------------------------------------- *)
(* Bounds and input domains of the server model                            *)
(* ---------------------------------------------------------------------- *)
MaxClients == 2

ClientIds == 1..MaxClients

Tasks == {"t1", "t2"}

(* Invocation t1 takes every request; the invocation overlapping it takes  *)
(* the requests that carry no path.                                        *)
FullTasks == {"t1"}

MainBases == {<<"/">>, <<"/", "a">>}

PathArgs == {<<>>, <<"f">>, <<"/", "e">>}

Patterns == {<<"f">>, <<"a">>}

FileOps == {"remote_read_file", "remote_write_file", "remote_list_directory"}

(* ---------------------------------------------------------------------- *)
(* State                                                                   *)
(* ---------------------------------------------------------------------- *)
VARIABLES
    base_path,      \* self.base_path, as its string
    vp_in, vp_out,  \* argument and result of a direct _validate_path call
    _ssh_client,    \* self._ssh_client: 0 is None, else a client object
    _sftp_client,   \* self._sftp_client: 0 is None, else the client whose
                    \*   transport the SFTP sub-channel was opened on
    clients,        \* transport state of every SSHClient object
    files,          \* bytes of every file on the remote host
    task,           \* the handler invocations (coroutines) of the dispatcher
    run,            \* main(): "serving", "finally" (loop ended), "done"
    exit,           \* how run_stdio ended: "none", "normal", "error"
    closer,         \* position of the remote_close invocation; "returned"
                    \*   until an operation started after it has completed
    close_log,      \* close calls issued by the latest remote_close
    ssh_config,     \* main(): the configuration given at startup
    handlers,       \* main(): setup_handlers() has registered the handlers
    written         \* history: path and text of the latest remote_write_file
                    \*   that returned, while its file is untouched since

vars == <<base_path, vp_in, vp_out, _ssh_client, _sftp_client, clients, files,
          task, run, exit, closer, close_log, ssh_config, handlers, written>>

pathVars == <<vp_in, vp_out>>

mainVars == <<ssh_config, handlers>>

serverVars == <<_ssh_client, _sftp_client, clients, files, task, run, exit,
                closer, close_log, mainVars, written>>

NoResult == [ok |-> FALSE, path |-> <<"?">>]

NoWrite == [path |-> <<"?">>, content |-> <<>>]

(* main() lines 372-395: a configuration value is None (not given), the     *)
(* empty string or a non-empty string; the checks test its truth value.     *)
ConfigValues == {"None", "", "v"}

Configs ==
    [hostname : ConfigValues, username : ConfigValues,
     password : ConfigValues, key_filename : ConfigValues]

Present(v) == v # "None" /\ v # ""

ConfigAccepted(cfg) ==
    /\ Present(cfg.hostname)
    /\ Present(cfg.username)
    /\ (Present(cfg.password) \/ Present(cfg.key_filename))

(* the configuration the server model runs with *)
ServingConfig ==
    [hostname |-> "v", username |-> "v", password |-> "v", key_filename |-> "None"]

(* remote_connect lines 57-66: the credentials put into connect_kwargs      *)
ConnectKwargs(cfg) ==
    (IF Present(cfg.password) THEN <<"password">> ELSE <<>>)
    \o (IF Present(cfg.key_filename) THEN <<"key_filename">> ELSE <<>>)

IdleTask ==
    [pc |-> "idle", op |-> "none", path |-> <<>>, pattern |-> <<>>,
     content |-> <<>>, callee |-> 0, full_path |-> <<>>, file_list |-> <<>>, idx |-> 0,
     statted |-> <<>>, results |-> <<>>, text |-> <<>>, outcome |-> "none",
     calls |-> <<>>]

RemoteCall(name, arg) == [call |-> name, arg |-> arg]

(* An SSHClient object nobody references any more and whose transport is   *)
(* gone cannot be observed by the program: its slot is reused.             *)
Refs(ssh, sftp, tk) == {ssh, sftp} \cup {tk[t].callee : t \in Tasks}

Collect(cl, ssh, sftp, tk) ==
    [c \in ClientIds |->
        IF cl[c] = "dead" /\ c \notin Refs(ssh, sftp, tk) THEN "unused" ELSE cl[c]]

FreshClient == CHOOSE c \in ClientIds : clients[c] = "unused"

(* Client objects have no identity beyond the references to them: after    *)
(* every step they are numbered in a canonical order (by who references    *)
(* them and by their transport state), so that states differing only in    *)
(* the numbering of the objects are the same state.                        *)
StatusCode(st) ==
    CASE st = "unused" -> 0 [] st = "dead" -> 1 [] st = "connecting" -> 2 [] OTHER -> 3

ClientKey(c, cl, ssh, sftp, tk) ==
    StatusCode(cl[c])
    + (IF c = ssh THEN 4 ELSE 0)
    + (IF c = sftp THEN 8 ELSE 0)
    + (IF c = tk["t1"].callee THEN 16 ELSE 0)
    + (IF c = tk["t2"].callee THEN 32 ELSE 0)

Rank(c, key) ==
    1 + Cardinality({d \in ClientIds : key[d] > key[c] \/ (key[d] = key[c] /\ d < c)})

(* ---------------------------------------------------------------------- *)
(* Specification of the path confiner alone: every base and candidate.     *)
(* ---------------------------------------------------------------------- *)
ServerInit ==
    /\ _ssh_client = 0
    /\ _sftp_client = 0
    /\ clients = [c \in ClientIds |-> "unused"]
    /\ files = InitialFiles
    /\ task = [t \in Tasks |-> IdleTask]
    /\ run = "serving"
    /\ exit = "none"
    /\ closer = "none"
    /\ close_log = <<>>
    /\ ssh_config = ServingConfig
    /\ handlers = TRUE
    /\ written = NoWrite

InitPath ==
    /\ base_path \in Bases
    /\ vp_in \in Strings(MaxLen)
    /\ vp_out = NoResult
    /\ ServerInit

Validate ==
    /\ vp_out = NoResult
    /\ vp_out' = _validate_path(base_path, vp_in)
    /\ UNCHANGED <<base_path, vp_in>>
    /\ UNCHANGED serverVars

NextPath == Validate

SpecPath == InitPath /\ [][NextPath]_vars

(* ---------------------------------------------------------------------- *)
(* Helpers of the server model                                             *)
(* ---------------------------------------------------------------------- *)
NoneSize == -1

AllIdle == \A t \in Tasks : task[t].pc = "idle"

CloserFree == closer \in {"none", "returned"}

Commit(ssh, sftp, cl, tk) ==
    \E tkv \in {tk} :
    \E cl2 \in {Collect(cl, ssh, sftp, tkv)} :
    \E key \in {[c \in ClientIds |-> ClientKey(c, cl2, ssh, sftp, tkv)]} :
    \E rank \in {[c \in ClientIds |-> Rank(c, key)]} :
    \E at \in {[r \in ClientIds |-> CHOOSE c \in ClientIds : rank[c] = r]} :
        /\ _ssh_client' = (IF ssh = 0 THEN 0 ELSE rank[ssh])
        /\ _sftp_client' = (IF sftp = 0 THEN 0 ELSE rank[sftp])
        /\ task' = [t \in Tasks |->
                       [tkv[t] EXCEPT !.callee = IF @ = 0 THEN 0 ELSE rank[@]]]
        /\ clients' = [r \in ClientIds |-> cl2[at[r]]]

Finish(tk, outcome) == [tk EXCEPT !.pc = "done", !.outcome = outcome, !.callee = 0]

(* An awaited asyncio.to_thread(...) call: the call is issued on the object *)
(* the attribute holds now, and the coroutine is suspended until it ends.   *)
Issue(tk, name, on, arg) ==
    [tk EXCEPT !.pc = name, !.callee = on,
               !.calls = Append(@, RemoteCall(name, arg))]

(* self._sftp_client.<call>(...) inside try/except Exception: on None the   *)
(* AttributeError is caught and re-raised as a generic Exception.           *)
SftpCall(tk, sftp, name, full) ==
    IF sftp = 0 THEN Finish(tk, "Exception")
    ELSE Issue([tk EXCEPT !.full_path = full], name, sftp, full)

(* remote_search_files lines 180-184 *)
SearchBaseDir(tk) == IF tk.path # <<>> THEN tk.path ELSE base_path

(* remote_search_files lines 191-214: the synchronous part of the loop up   *)
(* to the next awaited stat; an entry whose stat cannot even be issued      *)
(* (no sub-channel) is skipped by the except clause.                        *)
RECURSIVE SearchLoop(_, _)
SearchLoop(tk, sftp) ==
    IF tk.idx > Len(tk.file_list) THEN Finish(tk, "ok")
    ELSE IF tk.file_list[tk.idx] = <<>> \/ sftp = 0
         THEN SearchLoop([tk EXCEPT !.idx = @ + 1, !.statted = Append(@, FALSE)], sftp)
    ELSE Issue(tk, "stat", sftp, tk.file_list[tk.idx])

(* remote_search_files lines 197-209 *)
SearchItem(file_path) ==
    LET loc      == RemoteLoc(file_path)
        is_dir   == IsDir(loc)
        rel_path == IF base_path # Sep
                    THEN LStripSep(SubSeq(file_path, Len(base_path) + 1, Len(file_path)))
                    ELSE file_path
    IN  [name |-> Basename(file_path), path |-> rel_path,
         type |-> IF is_dir THEN "directory" ELSE "file",
         size |-> IF is_dir THEN NoneSize ELSE Len(files[loc])]

(* remote_list_directory lines 156-167 *)
ListItem(path, n) ==
    LET filename == n.loc[Len(n.loc)]
    IN  [name |-> filename,
         path |-> IF path # <<>> THEN PathJoin(PathStr(path), filename) ELSE filename,
         type |-> IF n.dir THEN "directory" ELSE "file",
         size |-> IF n.dir THEN NoneSize ELSE Len(files[n.loc])]

(* call_tool lines 339-345: one line per entry, "[type] path (X)" with X    *)
(* from "r['size'] if r['size'] else 'DIR'"; a notice when nothing is       *)
(* listed.  A line is kept as its three parts.                              *)
Truthy(size) == size # NoneSize /\ size # 0

ListLine(r) ==
    [type |-> r.type, path |-> r.path,
     x |-> IF Truthy(r.size) THEN [text |-> "size", n |-> r.size]
           ELSE [text |-> "DIR", n |-> 0]]

EmptyNotice == [type |-> "notice", path |-> <<>>, x |-> [text |-> "notice", n |-> 0]]

ListText(results) ==
    IF results = <<>> THEN <<EmptyNotice>>
    ELSE [i \in 1..Len(results) |-> ListLine(results[i])]

Children(loc) == SelectSeq(TreeSeq, LAMBDA n : Len(n.loc) = Len(loc) + 1 /\ Inside(n.loc, loc))

ListItems(path, loc) ==
    LET ch == Children(loc) IN [i \in 1..Len(ch) |-> ListItem(path, ch[i])]

(* The code that follows "await self.remote_connect()" in each operation, up *)
(* to its first awaited remote call.                                        *)
AfterConnect(tk, ssh, sftp) ==
    CASE tk.op = "remote_read_file" ->
            LET v == _validate_path(base_path, tk.path)
            IN  IF ~v.ok THEN Finish(tk, "ValueError")
                ELSE SftpCall(tk, sftp, "getfo", v.path)
      [] tk.op = "remote_write_file" ->
            LET v == _validate_path(base_path, tk.path)
            IN  IF ~v.ok THEN Finish(tk, "ValueError")
                ELSE SftpCall(tk, sftp, "putfo", v.path)
      [] tk.op = "remote_list_directory" ->
            LET v == IF tk.path = <<>> THEN [ok |-> TRUE, path |-> base_path]
                     ELSE _validate_path(base_path, tk.path)
            IN  IF ~v.ok THEN Finish(tk, "ValueError")
                ELSE SftpCall(tk, sftp, "listdir_attr", v.path)
      [] tk.op = "remote_search_files" ->
            Issue(tk, "exec_command", ssh, SearchBaseDir(tk))
      [] OTHER ->
            Issue(tk, "exec_command", ssh, <<>>)

(* The condition of remote_connect line 49.  While another invocation's     *)
(* connect() runs on the client, its transport may or may not exist yet.    *)
TransportSeen(c) ==
    IF c = 0 THEN {FALSE}
    ELSE IF clients[c] = "active" THEN {TRUE}
    ELSE IF clients[c] = "connecting" THEN {TRUE, FALSE}
    ELSE {FALSE}

(* ---------------------------------------------------------------------- *)
(* The dispatcher starts a handler invocation (call_tool, read_resource,   *)
(* list_resources).                                                        *)
(* ---------------------------------------------------------------------- *)
Request(t, o, p, pat, c) ==
    /\ run = "serving"
    /\ CloserFree
    /\ task[t].pc = "idle"
    /\ task' = [task EXCEPT ![t] = [IdleTask EXCEPT !.pc = "called", !.op = o,
                                     !.path = p, !.pattern = pat, !.content = c]]
    /\ closer' = closer
    /\ close_log' = <<>>
    /\ UNCHANGED <<base_path, pathVars, mainVars, written, _ssh_client, _sftp_client, clients, files, run, exit>>

Respond(t) ==
    /\ task[t].pc = "done"
    /\ Commit(_ssh_client, _sftp_client, clients, [task EXCEPT ![t] = IdleTask])
    /\ closer' = "none"
    /\ UNCHANGED <<base_path, pathVars, mainVars, written, files, run, exit, close_log>>

(* ---------------------------------------------------------------------- *)
(* remote_connect                                                          *)
(* ---------------------------------------------------------------------- *)
RemoteConnectCheck(t) ==
    /\ task[t].pc = "called"
    /\ \E seen \in TransportSeen(_ssh_client) :
          IF seen
          THEN Commit(_ssh_client, _sftp_client, clients,
                      [task EXCEPT ![t] = AfterConnect(task[t], _ssh_client, _sftp_client)])
          ELSE Commit(_ssh_client, _sftp_client, clients,
                      [task EXCEPT ![t] = [@ EXCEPT !.pc = "SSHClient"]])
    /\ UNCHANGED <<base_path, pathVars, mainVars, written, files, run, exit, closer, close_log>>

(* line 53 returns: the new client is stored and connect() is issued on it  *)
SSHClientDone(t) ==
    /\ task[t].pc = "SSHClient"
    /\ \E c \in ClientIds : clients[c] = "unused"
    /\ LET c == FreshClient
       IN  Commit(c, _sftp_client, [clients EXCEPT ![c] = "connecting"],
                  [task EXCEPT ![t] = Issue(@, "connect", c, ConnectKwargs(ssh_config))])
    /\ UNCHANGED <<base_path, pathVars, mainVars, written, files, run, exit, closer, close_log>>

(* remote_connect with a retry: a failed connect() is issued again *)
ConnectDone_Retries(t) ==
    /\ task[t].pc = "connect"
    /\ \E ok \in BOOLEAN :
          LET c == task[t].callee IN
          IF ok
          THEN Commit(_ssh_client, _sftp_client, [clients EXCEPT ![c] = "active"],
                      [task EXCEPT ![t] = Issue(@, "open_sftp", _ssh_client, <<>>)])
          ELSE Commit(_ssh_client, _sftp_client, clients,
                      [task EXCEPT ![t] = Issue(@, "connect", c, ConnectKwargs(ssh_config))])
    /\ UNCHANGED <<base_path, pathVars, mainVars, written, files, run, exit, closer, close_log>>

(* line 69 returns or raises; on success open_sftp is issued on the client  *)
(* self._ssh_client holds now                                               *)
ConnectDone(t) ==
    /\ task[t].pc = "connect"
    /\ \E ok \in BOOLEAN :
          LET c == task[t].callee IN
          IF ok
          THEN Commit(_ssh_client, _sftp_client, [clients EXCEPT ![c] = "active"],
                      [task EXCEPT ![t] = Issue(@, "open_sftp", _ssh_client, <<>>)])
          ELSE Commit(_ssh_client, _sftp_client, [clients EXCEPT ![c] = "dead"],
                      [task EXCEPT ![t] = Finish(@, "ConnectFailed")])
    /\ UNCHANGED <<base_path, pathVars, mainVars, written, files, run, exit, closer, close_log>>

(* line 71 returns or raises *)
OpenSftpDone(t) ==
    /\ task[t].pc = "open_sftp"
    /\ \E ok \in BOOLEAN :
          LET s == task[t].callee IN
          IF ok /\ clients[s] = "active"
          THEN Commit(_ssh_client, s, clients,
                      [task EXCEPT ![t] = AfterConnect([@ EXCEPT !.callee = 0], _ssh_client, s)])
          ELSE Commit(_ssh_client, _sftp_client, clients,
                      [task EXCEPT ![t] = Finish(@, "ConnectFailed")])
    /\ UNCHANGED <<base_path, pathVars, mainVars, written, files, run, exit, closer, close_log>>

(* ---------------------------------------------------------------------- *)
(* remote_read_file, remote_write_file, remote_list_directory: the awaited *)
(* SFTP call ends.  The host decides between success and the error kinds   *)
(* the code distinguishes; a call on a dead transport fails.               *)
(* ---------------------------------------------------------------------- *)
GetfoDone(t) ==
    /\ task[t].pc = "getfo"
    /\ LET tk  == task[t]
           loc == Location(tk.full_path)
           d   == IF IsFile(loc) THEN Decode(files[loc]) ELSE DecodeError
           outcomes ==
               IF clients[tk.callee] # "active" THEN {"Exception"}
               ELSE IF ~Exists(loc) THEN {"FileNotFoundError"}
               ELSE IF ~IsFile(loc) THEN {"Exception"}
               ELSE {IF d.ok THEN "ok" ELSE "Exception", "PermissionError", "Exception"}
       IN  \E o \in outcomes :
              Commit(_ssh_client, _sftp_client, clients,
                     [task EXCEPT ![t] =
                         Finish([@ EXCEPT !.content = IF o = "ok" THEN d.text ELSE <<>>], o)])
    /\ UNCHANGED <<base_path, pathVars, mainVars, written, files, run, exit, closer, close_log>>

(* remote_write_file on a file opened for appending: the bytes are added    *)
(* to the prior content                                                     *)
PutfoDone_Appends(t) ==
    /\ task[t].pc = "putfo"
    /\ LET tk  == task[t]
           loc == Location(tk.full_path)
           can == clients[tk.callee] = "active" /\ IsFile(loc)
       IN  \/ /\ can
              /\ files' = [files EXCEPT ![loc] = @ \o Encode(tk.content)]
              /\ written' = [path |-> tk.path, content |-> tk.content]
              /\ Commit(_ssh_client, _sftp_client, clients,
                        [task EXCEPT ![t] = Finish(@, "ok")])
           \/ /\ can
              /\ files' = [files EXCEPT ![loc] = <<>>]
              /\ written' = NoWrite
              /\ Commit(_ssh_client, _sftp_client, clients,
                        [task EXCEPT ![t] = Finish(@, "Exception")])
           \/ /\ \E o \in IF can THEN {"PermissionError", "Exception"} ELSE {"Exception"} :
                    Commit(_ssh_client, _sftp_client, clients,
                           [task EXCEPT ![t] = Finish(@, o)])
              /\ UNCHANGED <<files, written>>
    /\ UNCHANGED <<base_path, pathVars, mainVars, run, exit, closer, close_log>>

(* putfo opens the remote file for writing (truncating it) and then sends   *)
(* the bytes: a failed transfer leaves the old bytes or an empty file.      *)
PutfoDone(t) ==
    /\ task[t].pc = "putfo"
    /\ LET tk  == task[t]
           loc == Location(tk.full_path)
           can == clients[tk.callee] = "active" /\ IsFile(loc)
       IN  \/ /\ can
              /\ files' = [files EXCEPT ![loc] = Encode(tk.content)]
              /\ written' = [path |-> tk.path, content |-> tk.content]
              /\ Commit(_ssh_client, _sftp_client, clients,
                        [task EXCEPT ![t] = Finish(@, "ok")])
           \/ /\ can
              /\ files' = [files EXCEPT ![loc] = <<>>]
              /\ written' = NoWrite
              /\ Commit(_ssh_client, _sftp_client, clients,
                        [task EXCEPT ![t] = Finish(@, "Exception")])
           \/ /\ \E o \in IF can THEN {"PermissionError", "Exception"} ELSE {"Exception"} :
                    Commit(_ssh_client, _sftp_client, clients,
                           [task EXCEPT ![t] = Finish(@, o)])
              /\ UNCHANGED <<files, written>>
    /\ UNCHANGED <<base_path, pathVars, mainVars, run, exit, closer, close_log>>

ListdirDone(t) ==
    /\ task[t].pc = "listdir_attr"
    /\ LET tk  == task[t]
           loc == Location(tk.full_path)
           outcomes ==
               IF clients[tk.callee] # "active" THEN {"Exception"}
               ELSE IF ~Exists(loc) THEN {"FileNotFoundError"}
               ELSE IF ~IsDir(loc) THEN {"Exception"}
               ELSE {"ok", "PermissionError"}
       IN  \E o \in outcomes :
              Commit(_ssh_client, _sftp_client, clients,
                     [task EXCEPT ![t] =
                         Finish([@ EXCEPT !.results = IF o = "ok" THEN ListItems(tk.path, loc)
                                                      ELSE <<>>,
                                          !.text = IF o = "ok"
                                                   THEN ListText(ListItems(tk.path, loc))
                                                   ELSE <<>>], o)])
    /\ UNCHANGED <<base_path, pathVars, mainVars, written, files, run, exit, closer, close_log>>

(* ---------------------------------------------------------------------- *)
(* remote_search_files and remote_execute_command                          *)
(* ---------------------------------------------------------------------- *)
(* exec_command returns the channel files or raises (outside any try) *)
ExecCommandDone(t) ==
    /\ task[t].pc = "exec_command"
    /\ \E ok \in BOOLEAN :
          IF ok /\ clients[task[t].callee] = "active"
          THEN Commit(_ssh_client, _sftp_client, clients,
                      [task EXCEPT ![t] = Issue(@, "stdout_read", task[t].callee, <<>>)])
          ELSE Commit(_ssh_client, _sftp_client, clients,
                      [task EXCEPT ![t] = Finish(@, "SSHException")])
    /\ UNCHANGED <<base_path, pathVars, mainVars, written, files, run, exit, closer, close_log>>

(* stdout.read() returns: the output of find while the transport lives,     *)
(* nothing when it has died.                                                *)
StdoutReadDone(t) ==
    /\ task[t].pc = "stdout_read"
    /\ LET tk == task[t] IN
       IF tk.op = "remote_search_files"
       THEN LET out == IF clients[tk.callee] = "active"
                       THEN Find(SearchBaseDir(tk), tk.pattern) ELSE <<>>
            IN  Commit(_ssh_client, _sftp_client, clients,
                       [task EXCEPT ![t] =
                           SearchLoop([tk EXCEPT !.file_list = out, !.idx = 1, !.callee = 0],
                                      _sftp_client)])
       ELSE Commit(_ssh_client, _sftp_client, clients,
                   [task EXCEPT ![t] = Issue(tk, "stderr_read", tk.callee, <<>>)])
    /\ UNCHANGED <<base_path, pathVars, mainVars, written, files, run, exit, closer, close_log>>

StderrReadDone(t) ==
    /\ task[t].pc = "stderr_read"
    /\ Commit(_ssh_client, _sftp_client, clients, [task EXCEPT ![t] = Finish(@, "ok")])
    /\ UNCHANGED <<base_path, pathVars, mainVars, written, files, run, exit, closer, close_log>>

(* remote_search_files without the except clause of lines 210-212: a stat   *)
(* that raises ends the search                                              *)
StatDone_FailsSearch(t) ==
    /\ task[t].pc = "stat"
    /\ LET tk == task[t]
           fp == tk.file_list[tk.idx]
           can == clients[tk.callee] = "active" /\ Exists(RemoteLoc(fp))
       IN  \E ok \in BOOLEAN :
              LET kept == IF ok /\ can THEN Append(tk.results, SearchItem(fp)) ELSE tk.results
              IN  Commit(_ssh_client, _sftp_client, clients,
                         [task EXCEPT ![t] =
                             IF ok /\ can
                             THEN SearchLoop([tk EXCEPT !.results = kept, !.idx = @ + 1,
                                                        !.callee = 0,
                                                        !.statted = Append(@, TRUE)],
                                             _sftp_client)
                             ELSE Finish(tk, "Exception")])
    /\ UNCHANGED <<base_path, pathVars, mainVars, written, files, run, exit, closer, close_log>>


(* the awaited stat of one reported path returns or raises *)
StatDone(t) ==
    /\ task[t].pc = "stat"
    /\ LET tk == task[t]
           fp == tk.file_list[tk.idx]
           can == clients[tk.callee] = "active" /\ Exists(RemoteLoc(fp))
       IN  \E ok \in BOOLEAN :
              LET kept == IF ok /\ can THEN Append(tk.results, SearchItem(fp)) ELSE tk.results
              IN  Commit(_ssh_client, _sftp_client, clients,
                         [task EXCEPT ![t] =
                             SearchLoop([tk EXCEPT !.results = kept, !.idx = @ + 1, !.callee = 0,
                                                   !.statted = Append(@, ok /\ can)],
                                        _sftp_client)])
    /\ UNCHANGED <<base_path, pathVars, mainVars, written, files, run, exit, closer, close_log>>

(* ---------------------------------------------------------------------- *)
(* remote_close.  Its only call site is the finally clause of main(), after *)
(* the serving loop has ended; as a method of the manager it is also        *)
(* called between operations.                                               *)
(* ---------------------------------------------------------------------- *)
CloseReturn == IF run = "finally" THEN "done" ELSE run

RemoteCloseStart ==
    /\ run \in {"serving", "finally"}
    /\ CloserFree
    /\ AllIdle
    /\ IF _sftp_client # 0
       THEN closer' = "sftp_close" /\ close_log' = <<"sftp_close">> /\ run' = run
       ELSE IF _ssh_client # 0
       THEN closer' = "ssh_close" /\ close_log' = <<"ssh_close">> /\ run' = run
       ELSE closer' = "returned" /\ close_log' = <<>> /\ run' = CloseReturn
    /\ UNCHANGED <<base_path, pathVars, mainVars, written, _ssh_client, _sftp_client, clients, files, task, exit>>

SftpCloseDone ==
    /\ closer = "sftp_close"
    /\ Commit(_ssh_client, 0, clients, task)
    /\ IF _ssh_client # 0
       THEN closer' = "ssh_close" /\ close_log' = Append(close_log, "ssh_close") /\ run' = run
       ELSE closer' = "returned" /\ close_log' = close_log /\ run' = CloseReturn
    /\ UNCHANGED <<base_path, pathVars, mainVars, written, files, exit>>

(* remote_close without line 85 (the handle is kept after the close) *)
SshCloseDone_KeepsHandle ==
    /\ closer = "ssh_close"
    /\ Commit(_ssh_client, _sftp_client, [clients EXCEPT ![_ssh_client] = "dead"], task)
    /\ closer' = "returned"
    /\ run' = CloseReturn
    /\ UNCHANGED <<base_path, pathVars, mainVars, written, files, exit, close_log>>

SshCloseDone ==
    /\ closer = "ssh_close"
    /\ Commit(0, _sftp_client, [clients EXCEPT ![_ssh_client] = "dead"], task)
    /\ closer' = "returned"
    /\ run' = CloseReturn
    /\ UNCHANGED <<base_path, pathVars, mainVars, written, files, exit, close_log>>

(* ---------------------------------------------------------------------- *)
(* main(): the serving loop ends, normally or by an exception               *)
(* ---------------------------------------------------------------------- *)
RunLoopEnds(how) ==
    /\ run = "serving"
    /\ CloserFree
    /\ AllIdle
    /\ run' = "finally"
    /\ exit' = how
    /\ closer' = "none"
    /\ close_log' = <<>>
    /\ UNCHANGED <<base_path, pathVars, mainVars, written, _ssh_client, _sftp_client, clients, files, task>>

(* ---------------------------------------------------------------------- *)
(* The network: an established transport dies                               *)
(* ---------------------------------------------------------------------- *)
TransportDies(c) ==
    /\ run # "done"
    /\ clients[c] = "active"
    /\ Commit(_ssh_client, _sftp_client, [clients EXCEPT ![c] = "dead"], task)
    /\ UNCHANGED <<base_path, pathVars, mainVars, written, files, run, exit, closer, close_log>>

(* ---------------------------------------------------------------------- *)
(* Specification of the server                                             *)
(* ---------------------------------------------------------------------- *)
Init ==
    /\ base_path \in MainBases
    /\ vp_in = <<>>
    /\ vp_out = NoResult
    /\ ServerInit

Next ==
    \/ \E t \in FullTasks :
          \/ \E o \in FileOps, p \in PathArgs :
                IF o = "remote_write_file"
                THEN \E c \in Contents : Request(t, o, p, <<>>, c)
                ELSE Request(t, o, p, <<>>, <<>>)
          \/ \E p \in PathArgs, pat \in Patterns : Request(t, "remote_search_files", p, pat, <<>>)
    \/ \E t \in Tasks :
          \/ Request(t, "remote_execute_command", <<>>, <<>>, <<>>)
          \/ Respond(t)
          \/ RemoteConnectCheck(t)
          \/ SSHClientDone(t)
          \/ ConnectDone(t)
          \/ OpenSftpDone(t)
          \/ GetfoDone(t)
          \/ PutfoDone(t)
          \/ ListdirDone(t)
          \/ ExecCommandDone(t)
          \/ StdoutReadDone(t)
          \/ StderrReadDone(t)
          \/ StatDone(t)
    \/ RemoteCloseStart
    \/ SftpCloseDone
    \/ SshCloseDone
    \/ \E how \in {"normal", "error"} : RunLoopEnds(how)
    \/ \E c \in ClientIds : TransportDies(c)

Spec == Init /\ [][Next]_vars

(* C1: an accepted path equals the base or has the base followed by the    *)
(* separator as a prefix (for the base "/" the base itself ends with the   *)
(* separator), so that a sibling sharing only a textual prefix is rejected.*)
BaseDirPrefix(base) == IF EndsWith(base, Sep) THEN base ELSE base \o Sep

C1_ComponentPrefix ==
    vp_out.ok => (vp_out.path = base_path \/ StartsWith(vp_out.path, BaseDirPrefix(base_path)))

(* C2: an accepted path, once "." and ".." are resolved, lies within or    *)
(* equals the base directory.                                              *)
C2_NoEscape ==
    vp_out.ok => Inside(Location(vp_out.path), Location(base_path))

(* ---------------------------------------------------------------------- *)
(* Notions used by the session properties                                  *)
(* ---------------------------------------------------------------------- *)
InConnect == {"called", "SSHClient", "connect", "open_sftp"}

TransportActive(ssh, cl) == ssh # 0 /\ cl[ssh] = "active"

SubChannelOpen(sftp, cl) == sftp # 0 /\ cl[sftp] = "active"

BetweenOperations == CloserFree /\ \A t \in Tasks : task[t].pc \in {"idle", "done"}

OthersIdle(t) == \A u \in Tasks \ {t} : task[u].pc = "idle"

(* remote_connect returns to its caller without raising in this step *)
ConnectReturns(t) ==
    /\ task[t].pc \in {"called", "open_sftp"}
    /\ task'[t].pc \notin InConnect
    /\ task'[t].outcome # "ConnectFailed"

(* ... after having connected a new client (it did not return at line 50) *)
ReconnectReturns(t) ==
    /\ task[t].pc = "open_sftp"
    /\ task'[t].pc \notin InConnect
    /\ task'[t].outcome # "ConnectFailed"

(* the path an operation's argument is confined to *)
Confined(p) ==
    IF p = <<>> THEN [ok |-> TRUE, path |-> base_path] ELSE _validate_path(base_path, p)

CarriesPath(tk, c) ==
    \/ c.call \in {"getfo", "putfo", "listdir_attr"}
    \/ (c.call = "exec_command" /\ tk.op = "remote_search_files")

(* C3: every SFTP call or find command an operation has issued carries the *)
(* path that confinement accepted for the operation's path argument.       *)
C3_ConfinedBeforeCall ==
    \A t \in Tasks : \A i \in 1..Len(task[t].calls) :
        CarriesPath(task[t], task[t].calls[i]) =>
            /\ Confined(task[t].path).ok
            /\ task[t].calls[i].arg = Confined(task[t].path).path

(* C4: every item remote_search_files has collected comes from a reported  *)
(* path that lies in the subtree of the confined path argument.            *)
ItemOf(r, fp) ==
    /\ r.name = Basename(fp)
    /\ r.path = SearchItem(fp).path
    /\ r.type = SearchItem(fp).type

C4_SearchInsideSubtree ==
    \A t \in Tasks :
        task[t].op = "remote_search_files" =>
            \A i \in 1..Len(task[t].results) :
                /\ Confined(task[t].path).ok
                /\ \E k \in 1..Len(task[t].file_list) :
                      /\ ItemOf(task[t].results[i], task[t].file_list[k])
                      /\ Inside(RemoteLoc(task[t].file_list[k]),
                                Location(Confined(task[t].path).path))

(* C5: between operations the session never has an active transport       *)
(* without an SFTP sub-channel.                                            *)
C5_TransportHasSubChannel ==
    BetweenOperations =>
        (TransportActive(_ssh_client, clients) => SubChannelOpen(_sftp_client, clients))

(* C6: whenever remote_connect returns without raising (here: with no      *)
(* other invocation running), an active transport and a usable SFTP        *)
(* sub-channel exist.                                                      *)
C6_ConnectEstablishes ==
    [][\A t \in Tasks :
          (ConnectReturns(t) /\ OthersIdle(t)) =>
              /\ TransportActive(_ssh_client', clients')
              /\ SubChannelOpen(_sftp_client', clients')]_vars

(* C7: at most one SSH client is connected, and it is the one the manager  *)
(* references.                                                             *)
C7_OneLiveSession ==
    \A c \in ClientIds : clients[c] = "active" => c = _ssh_client

(* C8: when remote_close has returned and an operation that follows it    *)
(* (no operation has completed since) gets remote_connect to reconnect and *)
(* return without raising, the manager holds an active transport and a     *)
(* sub-channel opened on it.                                               *)
C8_ReconnectRestoresSession ==
    [][\A t \in Tasks :
          (ReconnectReturns(t) /\ closer = "returned") =>
              /\ TransportActive(_ssh_client', clients')
              /\ _sftp_client' = _ssh_client']_vars

(* C9: remote_close closes the sub-channel before the transport, leaves    *)
(* both handles cleared when it returns, and a remote_close that follows   *)
(* directly on another issues no close call and changes no handle.         *)
CloseOrders == {<<>>, <<"sftp_close">>, <<"ssh_close">>, <<"sftp_close", "ssh_close">>}

C9_CloseIdempotent ==
    [][/\ close_log' \in CloseOrders
       /\ (closer # "returned" /\ closer' = "returned") =>
              (_ssh_client' = 0 /\ _sftp_client' = 0)
       /\ (closer = "returned" /\ AllIdle /\ AllIdle') =>
              /\ closer' \in {"returned", "none"}
              /\ _ssh_client' = _ssh_client
              /\ _sftp_client' = _sftp_client]_vars

C9_ClosedConnectedSession ==
    /\ closer = "returned"
    /\ close_log = <<"sftp_close", "ssh_close">>
    /\ _ssh_client = 0
    /\ _sftp_client = 0
    /\ run = "serving"

(* C10: when main() has finished, however the serving loop ended, no        *)
(* transport and no sub-channel is open.                                   *)
C10_ClosedAtExit ==
    run = "done" =>
        /\ _ssh_client = 0
        /\ _sftp_client = 0
        /\ \A c \in ClientIds : clients[c] # "active"

(* ---------------------------------------------------------------------- *)
(* Specification of startup: main() from the configuration to the serving  *)
(* loop, and the first connection made with that configuration.            *)
(* ---------------------------------------------------------------------- *)
InitMain ==
    /\ base_path \in MainBases
    /\ vp_in = <<>>
    /\ vp_out = NoResult
    /\ ssh_config \in Configs
    /\ handlers = FALSE
    /\ run = "startup"
    /\ _ssh_client = 0
    /\ _sftp_client = 0
    /\ clients = [c \in ClientIds |-> "unused"]
    /\ files = InitialFiles
    /\ task = [t \in Tasks |-> IdleTask]
    /\ exit = "none"
    /\ closer = "none"
    /\ close_log = <<>>
    /\ written = NoWrite

(* main() lines 387-403: the checks, then the handlers, then run_stdio      *)
MainStart ==
    /\ run = "startup"
    /\ IF ConfigAccepted(ssh_config)
       THEN handlers' = TRUE /\ run' = "serving"
       ELSE handlers' = FALSE /\ run' = "failed"
    /\ UNCHANGED <<base_path, pathVars, ssh_config, written, _ssh_client, _sftp_client,
                   clients, files, task, exit, closer, close_log>>

NextMain ==
    \/ MainStart
    \/ Request("t1", "remote_execute_command", <<>>, <<>>, <<>>)
    \/ RemoteConnectCheck("t1")
    \/ SSHClientDone("t1")
    \/ ConnectDone("t1")

SpecMain == InitMain /\ [][NextMain]_vars

(* C11: a valid request (its path is accepted and names a file to read or  *)
(* write, or a directory to list), made while no other invocation runs,     *)
(* never ends before it has issued a remote call: whatever failed earlier,  *)
(* it is served through the host.                                           *)
ValidRequest(tk) ==
    /\ tk.op \in FileOps
    /\ Confined(tk.path).ok
    /\ IF tk.op = "remote_list_directory"
       THEN IsDir(Location(Confined(tk.path).path))
       ELSE IsFile(Location(Confined(tk.path).path))

C11_FailureNotSticky ==
    [][\A t \in Tasks :
          (/\ task[t].pc = "called"
           /\ OthersIdle(t)
           /\ ValidRequest(task[t])) => task'[t].pc # "done"]_vars

(* C12: each invocation issues at most one connect call; when its connect  *)
(* fails (no client became connected in the step that ends it) the          *)
(* operation ends with the connection error, having issued no further call, *)
(* and an ended operation issues no call.                                   *)
ActiveCount(cl) == Cardinality({c \in ClientIds : cl[c] = "active"})

ConnectAttempts(tk) == Cardinality({i \in 1..Len(tk.calls) : tk.calls[i].call = "connect"})

C12_ConnectFailureSurfaced ==
    [][\A t \in Tasks :
          /\ ConnectAttempts(task'[t]) <= 1
          /\ (/\ task[t].pc = "connect"
              /\ task'[t].pc # "connect"
              /\ ActiveCount(clients') = ActiveCount(clients)) =>
                 /\ task'[t].pc = "done"
                 /\ task'[t].outcome = "ConnectFailed"
                 /\ task'[t].calls = task[t].calls
          /\ (task[t].pc = "done" /\ task'[t].pc # "idle") =>
                 /\ task'[t].calls = task[t].calls
                 /\ task'[t].outcome = task[t].outcome]_vars

C12_ConnectFailed ==
    \E t \in Tasks :
        /\ task[t].pc = "done"
        /\ task[t].outcome = "ConnectFailed"
        /\ Len(task[t].calls) = 1
        /\ task[t].calls[1].call = "connect"

(* C13: startup reaches the serving state exactly when hostname and         *)
(* username are present and exactly one of password and key_filename is;    *)
(* a failed startup has registered no handler and attempted no connection;  *)
(* no connect call carries both credentials.                                *)
ExactlyOneCredential(cfg) == Present(cfg.password) # Present(cfg.key_filename)

C13_StartupChecks ==
    /\ run # "startup" =>
          (run # "failed" <=> /\ Present(ssh_config.hostname)
                              /\ Present(ssh_config.username)
                              /\ ExactlyOneCredential(ssh_config))
    /\ run = "failed" =>
          /\ ~handlers
          /\ \A t \in Tasks : task[t].calls = <<>>
    /\ \A t \in Tasks : \A i \in 1..Len(task[t].calls) :
          task[t].calls[i].call = "connect" =>
              task[t].calls[i].arg # <<"password", "key_filename">>

(* C14: confining the empty path yields the base path itself, for every     *)
(* base; an operation called with the empty path is never rejected as a     *)
(* path error, and the SFTP call it issues (listdir_attr for                *)
(* remote_list_directory) carries the base path.                            *)
C14_EmptyPathIsBase ==
    /\ \A b \in Bases : _validate_path(b, <<>>) = [ok |-> TRUE, path |-> b]
    /\ \A t \in Tasks :
          (task[t].op \in FileOps /\ task[t].path = <<>>) =>
              /\ task[t].outcome # "ValueError"
              /\ \A i \in 1..Len(task[t].calls) :
                    task[t].calls[i].call \in {"getfo", "putfo", "listdir_attr"} =>
                        task[t].calls[i].arg = base_path

C14_ListedBase ==
    \E t \in Tasks :
        /\ task[t].op = "remote_list_directory"
        /\ task[t].path = <<>>
        /\ task[t].pc = "done"
        /\ task[t].outcome = "ok"
        /\ task[t].results # <<>>

(* C15: in the text of a listing every entry has its line; the line of a    *)
(* file shows the file's size, whatever the size, and a line shows DIR      *)
(* exactly when the entry is a directory.                                   *)
C15_ListLineShowsSize ==
    \A t \in Tasks :
        (task[t].op = "remote_list_directory" /\ task[t].pc = "done"
            /\ task[t].outcome = "ok" /\ task[t].results # <<>>) =>
            /\ Len(task[t].text) = Len(task[t].results)
            /\ \A i \in 1..Len(task[t].results) :
                  LET r == task[t].results[i]
                      l == task[t].text[i]
                  IN  /\ l.type = r.type
                      /\ l.path = r.path
                      /\ r.type = "file" => l.x = [text |-> "size", n |-> r.size]
                      /\ l.x.text = "DIR" <=> r.type = "directory"

(* C16: while the file of the latest returned remote_write_file(p, c) is    *)
(* untouched, the file at the path confinement gives for p holds exactly    *)
(* the encoding of c, and a remote_read_file(p) that returns, returns c.    *)
C16_WriteReadRoundTrip ==
    written # NoWrite =>
        /\ Confined(written.path).ok
        /\ files[Location(Confined(written.path).path)] = Encode(written.content)
        /\ \A t \in Tasks :
              (/\ task[t].op = "remote_read_file"
               /\ task[t].pc = "done"
               /\ task[t].outcome = "ok"
               /\ task[t].path = written.path) => task[t].content = written.content

C16_ReadBackWritten ==
    \E t \in Tasks :
        /\ task[t].op = "remote_read_file"
        /\ task[t].pc = "done"
        /\ task[t].outcome = "ok"
        /\ task[t].path = written.path
        /\ task[t].content = <<"eacute">>

(* C17: when the base is not "/", joining the base with the path of every   *)
(* item remote_search_files has collected gives the location of the         *)
(* reported path the item was made from.                                    *)
C17_SearchPathsRelative ==
    \A t \in Tasks :
        (task[t].op = "remote_search_files" /\ base_path # Sep) =>
            \A i \in 1..Len(task[t].results) :
                \E k \in 1..Len(task[t].file_list) :
                    /\ ItemOf(task[t].results[i], task[t].file_list[k])
                    /\ Location(PathJoin(base_path, task[t].results[i].path))
                           = RemoteLoc(task[t].file_list[k])

(* C18: no two invocations have a network-bound call in flight on the same  *)
(* client at the same time.                                                 *)
NetworkCalls ==
    {"connect", "open_sftp", "getfo", "putfo", "listdir_attr", "exec_command",
     "stdout_read", "stderr_read", "stat"}

InFlight(t) == task[t].pc \in NetworkCalls

C18_OneCallInFlight ==
    \A t, u \in Tasks :
        (t # u /\ InFlight(t) /\ InFlight(u)) => task[t].callee # task[u].callee

(* C19: a read, write or list whose path confinement rejects has issued no  *)
(* remote call, connection establishment included.                          *)
C19_RejectionIsLocal ==
    \A t \in Tasks :
        (task[t].op \in FileOps /\ ~Confined(task[t].path).ok) => task[t].calls = <<>>

(* C20: in remote_search_files the items collected are exactly those of the *)
(* reported paths whose stat returned, in the reported order; once the      *)
(* stats have begun the search ends normally, every reported path having    *)
(* been gone through.                                                       *)
KeptItems(file_list, statted) ==
    LET idxs == SelectSeq([k \in 1..Len(statted) |-> k], LAMBDA k : statted[k])
    IN  [j \in 1..Len(idxs) |-> SearchItem(file_list[idxs[j]])]

C20_StatFailureSkipsEntry ==
    \A t \in Tasks :
        task[t].op = "remote_search_files" =>
            /\ Len(task[t].statted) <= Len(task[t].file_list)
            /\ task[t].results = KeptItems(task[t].file_list, task[t].statted)
            /\ (task[t].pc = "done" /\ task[t].file_list # <<>>) =>
                  /\ task[t].outcome = "ok"
                  /\ Len(task[t].statted) = Len(task[t].file_list)

C20_SkippedThenKept ==
    \E t \in Tasks :
        /\ task[t].op = "remote_search_files"
        /\ task[t].pc = "done"
        /\ task[t].outcome = "ok"
        /\ \E j, k \in 1..Len(task[t].statted) :
              j < k /\ ~task[t].statted[j] /\ task[t].statted[k]
        /\ Len(task[t].results) >= 2

====
